---- MODULE Spec2Model ----
(***************************************************************************)
(* A model of crate.h: the pocket dictionary (pd_find_50 and its five      *)
(* variants, pd_add_50) and the filter GenericCrate<FINDER> built on it.   *)
(*                                                                         *)
(* Representation of the C++ values:                                       *)
(*   - a byte is a number in 0..255; a block of memory is a sequence of    *)
(*     bytes, byte i of the block being element i + 1 of the sequence;     *)
(*   - an unsigned integer used as a bit string (uint64_t, unsigned        *)
(*     __int128, the 64-bit compare mask) is the set of the positions of   *)
(*     its set bits, so that the value is the sum of 2^p over the set;     *)
(*     the width of the type is kept by cutting the set to 0..w-1;         *)
(*   - an unsigned integer used as a number that does not fit the model    *)
(*     checker's integers (a 64-bit key, the 64-bit product of the bucket  *)
(*     index) is its little-endian sequence of bytes, as it lies in        *)
(*     memory.                                                             *)
(***************************************************************************)
EXTENDS Integers, Sequences, FiniteSets, TLC

\* ------------------------------------------------------------------------
\* Bit strings
\* ------------------------------------------------------------------------

\* the powers of two of the bits of a byte
BitWeight == <<1, 2, 4, 8, 16, 32, 64, 128>>

\* bit b of byte v
ByteBit(v, b) == (v \div BitWeight[b + 1]) % 2 = 1

\* the bits that byte i of a little-endian integer contributes when its
\* value is v: the set bits of v, moved up by 8i
ByteBitsAt ==
  [i \in 0..15 |-> [v \in 0..255 |-> {8 * i + b : b \in {c \in 0..7 : ByteBit(v, c)}}]]

\* memcpy(&x, bytes, Len(bytes)) into a zeroed little-endian integer x of at
\* most 16 bytes
BitsOfBytes(bytes) ==
  UNION {ByteBitsAt[i - 1][bytes[i]] : i \in 1..Len(bytes)}

\* the value of the byte made of bits 8i..8i+7 of x
ByteValue(x, i) ==
    (IF (8 * i) \in x THEN 1 ELSE 0)     + (IF (8 * i + 1) \in x THEN 2 ELSE 0)
  + (IF (8 * i + 2) \in x THEN 4 ELSE 0) + (IF (8 * i + 3) \in x THEN 8 ELSE 0)
  + (IF (8 * i + 4) \in x THEN 16 ELSE 0) + (IF (8 * i + 5) \in x THEN 32 ELSE 0)
  + (IF (8 * i + 6) \in x THEN 64 ELSE 0) + (IF (8 * i + 7) \in x THEN 128 ELSE 0)

\* memcpy(bytes, &x, n) from a little-endian integer x
BytesOfBits(x, n) == [i \in 1..n |-> ByteValue(x, i - 1)]

\* x >> n, for x of at most 128 bits
ShiftRight(x, n) == {p - n : p \in x \cap (n..127)}

\* x << n in a type of w bits
ShiftLeft(x, n, w) == {p + n : p \in x \cap (0..(w - 1 - n))}

\* (1 << n) - 1, for 0 <= n less than the width
LowMask(n) == 0..(n - 1)

\* conversion to uint64_t
Low64(x) == x \cap (0..63)

\* the bit positions of a uint64_t
Positions64 == [i \in 1..64 |-> i - 1]

\* the positions of x in increasing order
SortedBits(x) == SelectSeq(Positions64, LAMBDA p : p \in x)

\* _pdep_u64(src, mask): bit k of src goes to the position of the k-th set bit
\* of mask
pdep_u64(src, mask) ==
  LET m == SortedBits(mask)
  IN  {m[k + 1] : k \in {s \in src : s < Len(m)}}

\* _tzcnt_u64(x): the number of trailing zero bits, 64 for x = 0
tzcnt_u64(x) ==
  IF x = {} THEN 64 ELSE CHOOSE p \in x : x \cap (0..(p - 1)) = {}

\* _mm_popcnt_u64(x)
popcnt_u64(x) == Cardinality(Low64(x))

select64(x, j) == tzcnt_u64(pdep_u64({j} \cap (0..63), Low64(x)))

\* Seeded fault: the mask is not shifted back, so bit j + 1 is deposited
select64_alt_NoShiftBack(x, j) ==
  tzcnt_u64(pdep_u64({j + 1} \cap (0..63), Low64(x))) % 64

\* Seeded fault: the count of trailing zeros is not reduced modulo 64
select64_alt_NoWrap(x, j) ==
  tzcnt_u64(pdep_u64({j} \cap (0..62), Low64(x)))

\* (UINT64_C(1) << (j + 1)) >> 1 is bit j for 0 <= j <= 62 and 0 for j = -1
select64_alt(x, j) ==
  tzcnt_u64(pdep_u64({j} \cap (0..62), Low64(x))) % 64

\* The values select64_alt(x, j) can return.  For j = 63 the shift
\* UINT64_C(1) << (j + 1) is by the width of the type, which is undefined:
\* any value that 63 & ... leaves.
select64_alt_Results(x, j) ==
  IF j = 63 THEN 0..63 ELSE {select64_alt(x, j)}

select128(x, j) ==
  LET pop == popcnt_u64(x)
  IN  IF j < pop THEN select64(x, j)
      ELSE 64 + select64(ShiftRight(x, 64), j - pop)

select128withPop64(x, j, pop) ==
  IF j < pop THEN select64(x, j)
  ELSE 64 + select64(ShiftRight(x, 64), j - pop)

popcount64(x) == popcnt_u64(x)

popcount128(x) ==
  LET hi == ShiftRight(x, 64)
      lo == Low64(x)
  IN  popcount64(lo) + popcount64(hi)

\* ------------------------------------------------------------------------
\* Pocket dictionary: lookup
\* ------------------------------------------------------------------------

\* sizeof(__m512i)
PdBytes == 64

\* sizeof(unsigned __int128)
HeaderWordBytes == 16

\* (((unsigned __int128)1) << (50 + 51)) - 1
kLeftoverMask == LowMask(50 + 51)

\* (50 + 51 + CHAR_BIT - 1) / CHAR_BIT
kHeaderBytes == (50 + 51 + 8 - 1) \div 8

\* header = 0; memcpy(&header, pd, sizeof(header)); header &= kLeftoverMask
FindHeader(pd) == BitsOfBytes(SubSeq(pd, 1, HeaderWordBytes)) \cap kLeftoverMask

\* Seeded fault: the compare mask is not shifted past the header bytes
CompareMask_NoShift(rem, pd) == {i \in 0..(PdBytes - 1) : pd[i + 1] = rem}

\* v = _mm512_cmpeq_epu8_mask(target, *pd); v = v >> kHeaderBytes
CompareMask(rem, pd) ==
  ShiftRight({i \in 0..(PdBytes - 1) : pd[i + 1] = rem}, kHeaderBytes)

\* return (v & ((UINT64_C(1) << end) - 1)) >> begin, converted to bool
InRange(be, v) == ShiftRight(v \cap LowMask(be[2]), be[1]) # {}

\* Seeded fault: begin is the separator of quot - 1, not the bit after it
Range_50_OnSeparator(quot, header) ==
  LET pop   == popcnt_u64(header)
      begin == (IF quot # 0 THEN select128withPop64(header, quot - 1, pop)
                ELSE 0) - quot
      end   == select128withPop64(header, quot, pop) - quot
  IN  <<begin, end>>

\* begin and end of pd_find_50
Range_50(quot, header) ==
  LET pop   == popcnt_u64(header)
      begin == (IF quot # 0 THEN select128withPop64(header, quot - 1, pop) + 1
                ELSE 0) - quot
      end   == select128withPop64(header, quot, pop) - quot
  IN  <<begin, end>>

pd_find_50(quot, rem, pd) ==
  InRange(Range_50(quot, FindHeader(pd)), CompareMask(rem, pd))

\* begin and end of pd_find_50_alt
Range_50_alt(quot, header) ==
  LET pop == popcnt_u64(header)
      hi  == ShiftRight(header, 64)
  IN  IF quot = 0 THEN <<0, select64(header, 0)>>
      ELSE IF quot - 1 >= pop
           THEN <<64 + select64(hi, quot - 1 - pop) + 1 - quot,
                  64 + select64(hi, quot - pop) - quot>>
           ELSE <<select64(header, quot - 1) + 1 - quot,
                  IF quot >= pop THEN 64 + select64(hi, quot - pop) - quot
                  ELSE select64(header, quot) - quot>>

pd_find_50_alt(quot, rem, pd) ==
  InRange(Range_50_alt(quot, FindHeader(pd)), CompareMask(rem, pd))

\* begin and end of pd_find_50_alt2
Range_50_alt2(quot, header) ==
  LET pop   == popcnt_u64(header)
      begin == IF quot > 0
               THEN IF quot - 1 < pop
                    THEN select64(header, quot - 1) + 1 - quot
                    ELSE 64 + select64(ShiftRight(header, 64), quot - 1 - pop)
                         + 1 - quot
               ELSE 0
      end   == begin + tzcnt_u64(Low64(ShiftRight(header, begin + quot)))
  IN  <<begin, end>>

pd_find_50_alt2(quot, rem, pd) ==
  InRange(Range_50_alt2(quot, FindHeader(pd)), CompareMask(rem, pd))

\* begin and end of pd_find_50_alt3
Range_50_alt3(quot, header) ==
  LET pop   == popcnt_u64(header)
      q1    == quot - 1
      begin == IF quot > 0
               THEN (IF q1 < pop THEN select64(header, q1)
                     ELSE 64 + select64(ShiftRight(header, 64), q1 - pop)) - q1
               ELSE 0
      end   == begin + tzcnt_u64(Low64(ShiftRight(header, begin + quot)))
  IN  <<begin, end>>

pd_find_50_alt3(quot, rem, pd) ==
  InRange(Range_50_alt3(quot, FindHeader(pd)), CompareMask(rem, pd))

\* begin and end of pd_find_50_alt4
Range_50_alt4(quot, header) ==
  LET begin == IF quot > 0
               THEN LET p == popcnt_u64(header \cap LowMask(quot - 1))
                    IN  select64(ShiftRight(header, quot - 1), quot - 1 - p)
               ELSE 0
      end   == begin + tzcnt_u64(Low64(ShiftRight(header, begin + quot)))
  IN  <<begin, end>>

pd_find_50_alt4(quot, rem, pd) ==
  InRange(Range_50_alt4(quot, FindHeader(pd)), CompareMask(rem, pd))

\* begin and end of pd_find_50_alt5
Range_50_alt5(quot, header) ==
  LET mask  == ShiftRight(LowMask(quot), 1)
      p     == popcnt_u64(header \cap mask)
      begin == select64_alt(ShiftRight(ShiftLeft(header, 1, 128), quot % 64),
                            quot - 1 - p)
      end   == begin + tzcnt_u64(Low64(ShiftRight(header, begin + quot)))
  IN  <<begin, end>>

pd_find_50_alt5(quot, rem, pd) ==
  InRange(Range_50_alt5(quot, FindHeader(pd)), CompareMask(rem, pd))

\* ------------------------------------------------------------------------
\* Pocket dictionary: insertion
\* ------------------------------------------------------------------------

\* (50 + 51 + CHAR_BIT - 1) / CHAR_BIT
kBytes2copy == (50 + 51 + 8 - 1) \div 8

\* header = 0; memcpy(&header, pd, kBytes2copy); header &= kLeftoverMask
AddHeader(pd) == BitsOfBytes(SubSeq(pd, 1, kBytes2copy)) \cap kLeftoverMask

\* Seeded fault: the fill is one too low
Fill_OneLow(header) == select128(header, 50 - 1) - 50

\* fill = select128(header, 50 - 1) - (50 - 1)
Fill(header) == select128(header, 50 - 1) - (50 - 1)

\* begin = quot ? (select128(header, quot - 1) + 1) : 0
AddBegin(quot, header) ==
  IF quot # 0 THEN select128(header, quot - 1) + 1 ELSE 0

\* end = select128(header, quot)
AddEnd(quot, header) == select128(header, quot)

\* Seeded fault: the high part is not shifted, so no zero bit is inserted
NewHeader_NoShift(quot, header) ==
  LET begin == AddBegin(quot, header)
      end   == AddEnd(quot, header)
  IN  (header \cap LowMask(begin))
        \cup ShiftLeft(ShiftRight(header, end), end, 128)

\* Seeded fault: the mask of the low part is one bit short, so the bit below
\* begin is dropped
NewHeader_ShortMask(quot, header) ==
  LET begin == AddBegin(quot, header)
      end   == AddEnd(quot, header)
  IN  (header \cap LowMask(begin - 1))
        \cup ShiftLeft(ShiftRight(header, end), end + 1, 128)

\* new_header = header & ((1 << begin) - 1); new_header |= (header >> end) << (end + 1)
NewHeader(quot, header) ==
  LET begin == AddBegin(quot, header)
      end   == AddEnd(quot, header)
  IN  (header \cap LowMask(begin))
        \cup ShiftLeft(ShiftRight(header, end), end + 1, 128)

\* Seeded fault: no search, the remainder goes to the end of its quotient's
\* range
InsertIndex_Append(i, end_fingerprint, rem, pd) == end_fingerprint

\* for (i = begin_fingerprint; i < end_fingerprint; ++i)
\*   if (rem <= pd[kBytes2copy + i]) break;
RECURSIVE InsertIndex(_, _, _, _)
InsertIndex(i, end_fingerprint, rem, pd) ==
  IF i < end_fingerprint
  THEN IF rem <= pd[kBytes2copy + i + 1] THEN i
       ELSE InsertIndex(i + 1, end_fingerprint, rem, pd)
  ELSE i

\* memcpy(pd, &new_header, kBytes2copy)
StoreHeader(new_header, pd) ==
  BytesOfBits(new_header, kBytes2copy) \o SubSeq(pd, kBytes2copy + 1, PdBytes)

\* Seeded fault: the memmove is one byte too long and runs past the block
StoreRemainder_LongMove(i, rem, pd) ==
  SubSeq(pd, 1, kBytes2copy + i) \o <<rem>>
    \o SubSeq(pd, kBytes2copy + i + 1, PdBytes)

\* Seeded fault: no memmove, the remainder overwrites the byte at its index
StoreRemainder_Overwrite(i, rem, pd) ==
  [pd EXCEPT ![kBytes2copy + i + 1] = rem]

\* Seeded fault: the tape is taken to start one byte early, in the last
\* byte of the header
StoreRemainder_OneEarly(i, rem, pd) ==
  SubSeq(pd, 1, kBytes2copy + i - 1) \o <<rem>>
    \o SubSeq(pd, kBytes2copy + i, PdBytes - 1)

\* memmove(&pd[kBytes2copy + i + 1], &pd[kBytes2copy + i],
\*         sizeof(*pd) - (kBytes2copy + i + 1));
\* pd[kBytes2copy + i] = rem
StoreRemainder(i, rem, pd) ==
  SubSeq(pd, 1, kBytes2copy + i) \o <<rem>>
    \o SubSeq(pd, kBytes2copy + i + 1, PdBytes - 1)

\* Seeded fault: the block counts as full when the range of quot ends at the
\* end of the tape, not when the fill is 51
AddToHeader_FullByEnd(quot, rem, pd, header) ==
  IF AddEnd(quot, header) - quot = 51 THEN [ret |-> FALSE, pd |-> pd]
  ELSE
    LET pd1 == StoreHeader(NewHeader(quot, header), pd)
        begin_fingerprint == AddBegin(quot, header) - quot
        end_fingerprint   == AddEnd(quot, header) - quot
        i == InsertIndex(begin_fingerprint, end_fingerprint, rem, pd1)
    IN  [ret |-> TRUE, pd |-> StoreRemainder(i, rem, pd1)]

\* pd_add_50 from the masked header on
AddToHeader(quot, rem, pd, header) ==
  IF Fill(header) = 51 THEN [ret |-> FALSE, pd |-> pd]
  ELSE
    LET pd1 == StoreHeader(NewHeader(quot, header), pd)
        begin_fingerprint == AddBegin(quot, header) - quot
        end_fingerprint   == AddEnd(quot, header) - quot
        i == InsertIndex(begin_fingerprint, end_fingerprint, rem, pd1)
    IN  [ret |-> TRUE, pd |-> StoreRemainder(i, rem, pd1)]

\* Seeded fault: the tape is shifted and the remainder stored before the
\* header is written
HeaderStore_TapeFirst(quot, rem, pd, header) ==
  StoreRemainder(InsertIndex(AddBegin(quot, header) - quot,
                             AddEnd(quot, header) - quot, rem, pd), rem, pd)

\* The block after the first store of a pd_add_50 that does not return
\* false: memcpy(pd, &new_header, kBytes2copy)
HeaderStore(quot, rem, pd, header) == StoreHeader(NewHeader(quot, header), pd)

\* The block after the remaining stores of that pd_add_50, from the block the
\* first store left: the loop reads the tape as it is then, memmove shifts
\* it and the remainder is stored
TapeStore(quot, rem, pd, header) ==
  StoreRemainder(InsertIndex(AddBegin(quot, header) - quot,
                             AddEnd(quot, header) - quot, rem, pd), rem, pd)

\* Seeded fault: a pair the block already holds is not stored again
pd_add_50_Idempotent(quot, rem, pd) ==
  IF pd_find_50(quot, rem, pd) THEN [ret |-> TRUE, pd |-> pd]
  ELSE AddToHeader(quot, rem, pd, AddHeader(pd))

\* Seeded fault: the block is written before the fill is looked at
pd_add_50_WriteFirst(quot, rem, pd) ==
  LET header == AddHeader(pd)
      pd1 == StoreHeader(NewHeader(quot, header), pd)
      i == InsertIndex(AddBegin(quot, header) - quot,
                       AddEnd(quot, header) - quot, rem, pd1)
  IN  [ret |-> Fill(header) # 51,
       pd |-> SubSeq(StoreRemainder(i, rem, pd1), 1, PdBytes)]

\* pd_add_50 as the pair of its return value and the block it leaves
pd_add_50(quot, rem, pd) == AddToHeader(quot, rem, pd, AddHeader(pd))

\* ------------------------------------------------------------------------
\* 64-bit arithmetic on little-endian byte sequences
\* ------------------------------------------------------------------------

\* the n low bytes of the number v
RECURSIVE BytesOfNat(_, _)
BytesOfNat(v, n) ==
  IF n = 0 THEN <<>> ELSE <<v % 256>> \o BytesOfNat(v \div 256, n - 1)

\* the number a byte sequence holds
RECURSIVE NatOfBytes(_)
NatOfBytes(bytes) ==
  IF bytes = <<>> THEN 0 ELSE bytes[1] + 256 * NatOfBytes(Tail(bytes))

\* column k of the schoolbook product: the sum of a[i + 1] * b[k - i + 1]
\* over i in 0..k
Column(a, b, k) ==
  CASE k = 0 -> a[1] * b[1]
    [] k = 1 -> a[1] * b[2] + a[2] * b[1]
    [] k = 2 -> a[1] * b[3] + a[2] * b[2] + a[3] * b[1]
    [] k = 3 -> a[1] * b[4] + a[2] * b[3] + a[3] * b[2] + a[4] * b[1]
    [] k = 4 -> a[1] * b[5] + a[2] * b[4] + a[3] * b[3] + a[4] * b[2]
                + a[5] * b[1]
    [] k = 5 -> a[1] * b[6] + a[2] * b[5] + a[3] * b[4] + a[4] * b[3]
                + a[5] * b[2] + a[6] * b[1]
    [] k = 6 -> a[1] * b[7] + a[2] * b[6] + a[3] * b[5] + a[4] * b[4]
                + a[5] * b[3] + a[6] * b[2] + a[7] * b[1]
    [] k = 7 -> a[1] * b[8] + a[2] * b[7] + a[3] * b[6] + a[4] * b[5]
                + a[5] * b[4] + a[6] * b[3] + a[7] * b[2] + a[8] * b[1]

\* bytes k..7 of the product of two uint64_t, which is taken modulo 2^64
RECURSIVE MulBytes(_, _, _, _)
MulBytes(a, b, k, carry) ==
  IF k = 8 THEN <<>>
  ELSE LET t == Column(a, b, k) + carry
       IN  <<t % 256>> \o MulBytes(a, b, k + 1, t \div 256)

\* a * b in uint64_t
Mul64(a, b) == MulBytes(a, b, 0, 0)

\* static_cast<uint64_t>(static_cast<uint32_t>(key))
Low32(key) == SubSeq(key, 1, 4) \o <<0, 0, 0, 0>>

\* x >> 32 in uint64_t
ShiftRight32(x) == SubSeq(x, 5, 8) \o <<0, 0, 0, 0>>

\* conversion of a uint64_t to uint32_t
Trunc32(x) == SubSeq(x, 1, 4)

\* ------------------------------------------------------------------------
\* The filter
\* ------------------------------------------------------------------------

\* bits 0..49 of the first 64-bit lane
InitHeaderLane == LowMask(50)

\* __m512i{(INT64_C(1) << 50) - 1, 0, 0, 0, 0, 0, 0, 0}
InitBucket == BytesOfBits(InitHeaderLane, 8) \o [i \in 1..(PdBytes - 8) |-> 0]

\* the divisor of the constructor
PerBucket == 45

\* bucket_count_ as the constructor sets it
BucketCountOf(add_count) == add_count \div PerBucket

\* SizeInBytes()
SizeInBytesOf(bucket_count) == PdBytes * bucket_count

\* ((key >> 40) * 50) >> 24
QuotOf(key) == ((key[6] + 256 * key[7] + 65536 * key[8]) * 50) \div 16777216

\* key >> 32, converted to uint8_t
RemOf(key) == key[5]

\* (static_cast<uint64_t>(static_cast<uint32_t>(key)) * bucket_count_) >> 32
IndexOf(key, bucket_count) ==
  ShiftRight32(Mul64(Low32(key), BytesOfNat(bucket_count, 8)))

\* The six instantiations of the template parameter FINDER
Finders == {"pd_find_50", "pd_find_50_alt", "pd_find_50_alt2",
            "pd_find_50_alt3", "pd_find_50_alt4", "pd_find_50_alt5"}

\* FINDER(quot, rem, pd) for the instantiation f
FINDER(f, quot, rem, pd) ==
  CASE f = "pd_find_50"      -> pd_find_50(quot, rem, pd)
    [] f = "pd_find_50_alt"  -> pd_find_50_alt(quot, rem, pd)
    [] f = "pd_find_50_alt2" -> pd_find_50_alt2(quot, rem, pd)
    [] f = "pd_find_50_alt3" -> pd_find_50_alt3(quot, rem, pd)
    [] f = "pd_find_50_alt4" -> pd_find_50_alt4(quot, rem, pd)
    [] f = "pd_find_50_alt5" -> pd_find_50_alt5(quot, rem, pd)

\* ------------------------------------------------------------------------
\* Inputs
\* ------------------------------------------------------------------------

\* A key from its three fields: the low 32 bits as four bytes, the byte at
\* bits 32..39, and bits 40..63 as three bytes.
MakeKey(low, rem, top) == low \o <<rem>> \o top

\* top 24 bits that give the quotients 0, 5, 6 and 49
Top0  == <<0, 0, 0>>
Top5  == <<154, 153, 25>>
Top6  == <<82, 184, 30>>
Top49 == <<255, 255, 255>>

\* The keys the model adds and looks up.  KeyList[1] and KeyList[2] share a
\* quotient and arrive out of order; KeyList[3] has the remainder 0 of the
\* unused tape bytes, in quotient 0; KeyList[4] has the last quotient and the
\* largest remainder; KeyList[5] has the fingerprint of KeyList[1] and the
\* largest low half; KeyList[6] lies in the quotient after KeyList[1]'s with
\* a remainder between those of KeyList[2] and KeyList[1].
KeyList ==
  << MakeKey(<<0, 0, 0, 0>>,         32,  Top5),
     MakeKey(<<1, 0, 0, 0>>,         16,  Top5),
     MakeKey(<<255, 255, 255, 127>>, 0,   Top0),
     MakeKey(<<0, 0, 0, 128>>,       255, Top49),
     MakeKey(<<255, 255, 255, 255>>, 32,  Top5),
     MakeKey(<<2, 0, 0, 128>>,       21,  Top6) >>

Keys == {KeyList[i] : i \in 1..Len(KeyList)}

\* The key arrays of the batch lookups: every key at many positions, in
\* two different orders
Keys64 == [i \in 0..63 |-> KeyList[(i % Len(KeyList)) + 1]]

Keys128 == [i \in 0..127 |-> KeyList[((i \div 5) % Len(KeyList)) + 1]]

\* Keys64 from its fourth key on
Keys64r == [i \in 0..63 |-> KeyList[((i + 3) % Len(KeyList)) + 1]]

\* the key arrays by name
KeyArray(name) ==
  CASE name = "Keys64"  -> Keys64
    [] name = "Keys64r" -> Keys64r
    [] name = "Keys128" -> Keys128

\* The batch lookups the threads make: <<function, key array>>
BatchCalls ==
  { <<"Contain64", "Keys64">>, <<"Contain64", "Keys64r">>,
    <<"Contain64_alt", "Keys64">>, <<"Contain64_alt", "Keys64r">>,
    <<"Contain128", "Keys128">> }

\* the FINDER of the filter the threads share
ReadFinder == "pd_find_50"

\* Capacity hints of the constructed filters: one bucket, two buckets
AddCounts == {50, 100}

\* The 64-bit words select64_alt is called on: none, one and all bits set,
\* the low half of the header of an empty block, and mixed words
SelectWords ==
  { {}, {0}, {63}, 0..63, LowMask(50), {0, 2, 5, 63}, {1, 3, 4, 60, 62},
    {2 * i + 1 : i \in 0..31}, (0..63) \ {0, 7, 32} }

\* Capacity hints around the multiples of PerBucket, from the smallest
Hints == {1, 44, 45, 46, 89, 90, 91, 135}

\* Before the threads start to read, a run makes at most MaxLoad Adds.
MaxLoad == 2

\* A run repeats one key as often as it likes, up to the saturation of its
\* bucket, and makes at most MaxMinor successful Adds of other keys.
MaxMinor == 1

\* ------------------------------------------------------------------------
\* State
\* ------------------------------------------------------------------------

VARIABLES
  bucket_count_,  \* GenericCrate::bucket_count_
  buckets_,       \* GenericCrate::buckets_, indexed from 0
  count,          \* history: per key, the number of Adds that returned true
  held,           \* history: per bucket, the (quot, rem) pairs added with true
  adds,           \* history: per bucket, the number of Adds that returned true
  saturated,      \* history: the bucket indexes whose Add has returned false
  ret,            \* history: <<bucket index, return value>> of the last Add
  hint,           \* history: the add_count the filter was constructed with
  pending,        \* the Add that has stored its header and not yet its
                  \* remainder: <<>> or <<key, bucket index, old header>>
  reading,        \* per thread, the batch lookup past its index loop:
                  \* <<>> or <<function, key array>>
  scratch,        \* per array indexes[], its contents
  out             \* per thread, the last value a read-only call returned:
                  \* <<>> or <<function, argument, value>>

vars == <<bucket_count_, buckets_, count, held, adds, saturated, ret,
          hint, pending, reading, scratch, out>>

\* the threads that call into the filter
Threads == {1, 2}

\* the functions with an array indexes[]
BatchFunctions == {"Contain64", "Contain64_alt", "Contain128"}

\* Seeded fault: indexes[] is static, one array for all calls of a function
ScratchOf_Static(t) == 1

\* uint32_t indexes[...] has automatic storage: every call has its own, so
\* the calls of different threads use different arrays
ScratchOf(t) == t

\* GenericCrate(add_count)
GenericCrate(add_count) ==
  /\ bucket_count_ = BucketCountOf(add_count)
  /\ buckets_ = [b \in 0..(BucketCountOf(add_count) - 1) |-> InitBucket]

\* the state after GenericCrate(add_count), nothing called yet
Constructed(add_count) ==
  /\ GenericCrate(add_count)
  /\ hint = add_count
  /\ count = [k \in Keys |-> 0]
  /\ held = [b \in DOMAIN buckets_ |-> {}]
  /\ adds = [b \in DOMAIN buckets_ |-> 0]
  /\ saturated = {}
  /\ ret = <<>>
  /\ pending = <<>>
  /\ reading = [t \in Threads |-> <<>>]
  /\ scratch = [fn \in BatchFunctions |-> [t \in Threads |-> <<>>]]
  /\ out = [t \in Threads |-> <<>>]

Init == \E add_count \in AddCounts : Constructed(add_count)

\* the element of buckets_ that Add and Contain address for key
BucketOf(key) == NatOfBytes(IndexOf(key, bucket_count_))

\* Contain(key) of GenericCrate<f>
Contain(f, key) == FINDER(f, QuotOf(key), RemOf(key), buckets_[BucketOf(key)])

\* Contain64(keys) of GenericCrate<f>, the result as the set of its set bits:
\* the loop that fills the scratch array uint32_t indexes[64], the prefetch
\* loop, which changes nothing, and the loop that probes
Contain64(f, keys) ==
  LET indexes == [i \in 0..63 |-> Trunc32(IndexOf(keys[i], bucket_count_))]
  IN  {i \in 0..63 : FINDER(f, QuotOf(keys[i]), RemOf(keys[i]),
                            buckets_[NatOfBytes(indexes[i])])}

\* Contain64_alt(keys) of GenericCrate<f>: as Contain64, the prefetch being
\* issued in the loop that fills indexes
Contain64_alt(f, keys) ==
  LET indexes == [i \in 0..63 |-> Trunc32(IndexOf(keys[i], bucket_count_))]
  IN  {i \in 0..63 : FINDER(f, QuotOf(keys[i]), RemOf(keys[i]),
                            buckets_[NatOfBytes(indexes[i])])}

\* Seeded fault: the batch takes the quotient from 16 bits of the key
Contain128_Quot16(f, keys) ==
  LET indexes == [i \in 0..127 |-> Trunc32(IndexOf(keys[i], bucket_count_))]
  IN  {i \in 0..127 :
         FINDER(f, ((keys[i][6] + 256 * keys[i][7]) * 50) \div 65536,
                RemOf(keys[i]), buckets_[NatOfBytes(indexes[i])])}

\* Contain128(keys) of GenericCrate<f>
Contain128(f, keys) ==
  LET indexes == [i \in 0..127 |-> Trunc32(IndexOf(keys[i], bucket_count_))]
  IN  {i \in 0..127 : FINDER(f, QuotOf(keys[i]), RemOf(keys[i]),
                             buckets_[NatOfBytes(indexes[i])])}

RECURSIVE SumCount(_, _)
SumCount(c, i) == IF i = 0 THEN 0 ELSE c[KeyList[i]] + SumCount(c, i - 1)

\* the successful Adds of all keys but the most added one
Minor(c) ==
  SumCount(c, Len(KeyList))
    - (CHOOSE m \in {c[k] : k \in Keys} : \A k \in Keys : c[k] <= m)

\* The array buckets_ after the bytes that pd_add_50 leaves at &buckets_[b]
\* are stored: PdBytes bytes are block b, and bytes a store has put past
\* them lie at the start of block b + 1.
StoreBlock(buckets, b, bytes) ==
  [c \in DOMAIN buckets |->
     IF c = b THEN SubSeq(bytes, 1, PdBytes)
     ELSE IF c = b + 1 /\ Len(bytes) > PdBytes
          THEN SubSeq(bytes, PdBytes + 1, Len(bytes))
                 \o SubSeq(buckets[c], Len(bytes) - PdBytes + 1, PdBytes)
          ELSE buckets[c]]

\* Add(key), on a bucket of the array
Add(key) ==
  \E b \in {BucketOf(key)} \cap DOMAIN buckets_ :
    \E r \in {pd_add_50(QuotOf(key), RemOf(key), buckets_[b])} :
      /\ pending = <<>>
      /\ r.ret => Minor([count EXCEPT ![key] = @ + 1]) <= MaxMinor
      /\ buckets_' = StoreBlock(buckets_, b, r.pd)
      /\ count' = IF r.ret THEN [count EXCEPT ![key] = @ + 1] ELSE count
      /\ held' = IF r.ret
                 THEN [held EXCEPT ![b] = @ \cup {<<QuotOf(key), RemOf(key)>>}]
                 ELSE held
      /\ adds' = IF r.ret THEN [adds EXCEPT ![b] = @ + 1] ELSE adds
      /\ saturated' = IF r.ret THEN saturated ELSE saturated \cup {b}
      /\ ret' = <<b, r.ret>>
      /\ UNCHANGED <<bucket_count_, hint, pending, reading, scratch, out>>

\* Add(key) up to its first store.  On a full block the call returns false
\* here; otherwise the header is in memory and the call is left pending.
AddStoresHeader(key) ==
  \E b \in {BucketOf(key)} \cap DOMAIN buckets_ :
    \E header \in {AddHeader(buckets_[b])} :
      /\ pending = <<>>
      /\ IF Fill(header) = 51
         THEN /\ saturated' = saturated \cup {b}
              /\ ret' = <<b, FALSE>>
              /\ UNCHANGED <<buckets_, pending>>
         ELSE /\ Minor([count EXCEPT ![key] = @ + 1]) <= MaxMinor
              /\ buckets_' = StoreBlock(buckets_, b,
                                HeaderStore(QuotOf(key), RemOf(key),
                                            buckets_[b], header))
              /\ pending' = <<key, b, header, buckets_[b]>>
              /\ UNCHANGED <<saturated, ret>>
      /\ UNCHANGED <<bucket_count_, count, held, adds, hint, reading,
                     scratch, out>>

\* The rest of the pending Add: the tape is shifted, the remainder stored,
\* and the call returns true.
AddStoresRemainder ==
  /\ pending # <<>>
  /\ \E key \in {pending[1]} :
       \E b \in {pending[2]} :
         /\ buckets_' = StoreBlock(buckets_, b,
                           TapeStore(QuotOf(key), RemOf(key), buckets_[b],
                                     pending[3]))
         /\ count' = [count EXCEPT ![key] = @ + 1]
         /\ held' = [held EXCEPT ![b] = @ \cup {<<QuotOf(key), RemOf(key)>>}]
         /\ adds' = [adds EXCEPT ![b] = @ + 1]
         /\ ret' = <<b, TRUE>>
  /\ pending' = <<>>
  /\ UNCHANGED <<bucket_count_, saturated, hint, reading, scratch, out>>

\* Add(key) when &buckets_[...] is not an element of the array: pd_add_50
\* reads and writes memory the filter does not own, which is undefined.  Of
\* the outcomes, the model keeps the two return values; the bytes written
\* are outside buckets_, and a run that is killed takes no step.  The
\* histories count, held and adds are those of the array's buckets.
AddOutOfRange(key) ==
  /\ pending = <<>>
  /\ BucketOf(key) \notin DOMAIN buckets_
  /\ \E v \in BOOLEAN : ret' = <<BucketOf(key), v>>
  /\ UNCHANGED <<bucket_count_, buckets_, count, held, adds, saturated,
                 hint, pending, reading, scratch, out>>

\* select64_alt(x, j), called by thread t with j from -1 to below the number
\* of set bits of x
Select64Alt(t) ==
  /\ \E x \in SelectWords :
       \E j \in (-1)..(popcnt_u64(x) - 1) :
         \E v \in select64_alt_Results(x, j) :
           out' = [out EXCEPT ![t] = <<"select64_alt", <<x, j>>, v>>]
  /\ UNCHANGED <<bucket_count_, buckets_, count, held, adds, saturated, ret,
                 hint, pending, reading, scratch>>

\* Contain(key), called by thread t while no Add is in progress
ContainCall(t, key) ==
  /\ pending = <<>>
  /\ reading[t] = <<>> /\ out[t] = <<>>
  /\ out' = [out EXCEPT ![t] = <<"Contain", key, Contain(ReadFinder, key)>>]
  /\ UNCHANGED <<bucket_count_, buckets_, count, held, adds, saturated, ret,
                 hint, pending, reading, scratch>>

\* The index loop of Contain64, Contain64_alt or Contain128, called by thread
\* t on a key array: indexes[] is filled; the prefetches change nothing.
BatchIndexes(t, call) ==
  /\ pending = <<>>
  /\ reading[t] = <<>> /\ out[t] = <<>>
  /\ \E keys \in {KeyArray(call[2])} :
       scratch' = [scratch EXCEPT ![call[1]][ScratchOf(t)] =
                     [i \in DOMAIN keys |->
                        Trunc32(IndexOf(keys[i], bucket_count_))]]
  /\ reading' = [reading EXCEPT ![t] = call]
  /\ UNCHANGED <<bucket_count_, buckets_, count, held, adds, saturated, ret,
                 hint, pending, out>>

\* The probe loop of the batch lookup of thread t, and its return
BatchProbes(t) ==
  /\ reading[t] # <<>>
  /\ \E keys \in {KeyArray(reading[t][2])} :
       \E indexes \in {scratch[reading[t][1]][ScratchOf(t)]} :
         out' = [out EXCEPT ![t] =
                   <<reading[t][1], reading[t][2],
                     {i \in DOMAIN keys :
                        FINDER(ReadFinder, QuotOf(keys[i]), RemOf(keys[i]),
                               buckets_[NatOfBytes(indexes[i])])}>>]
  /\ reading' = [reading EXCEPT ![t] = <<>>]
  /\ UNCHANGED <<bucket_count_, buckets_, count, held, adds, saturated, ret,
                 hint, pending, scratch>>

\* Add(key) before any thread reads: one of at most MaxLoad
Load(key) ==
  /\ \A t \in Threads : reading[t] = <<>> /\ out[t] = <<>>
  /\ SumCount(count, Len(KeyList)) < MaxLoad
  /\ Add(key)

\* SizeInBytes(), called by thread t
SizeInBytes(t) ==
  /\ out' = [out EXCEPT ![t] = <<"SizeInBytes", <<>>,
                                 SizeInBytesOf(bucket_count_)>>]
  /\ UNCHANGED <<bucket_count_, buckets_, count, held, adds, saturated, ret,
                 hint, pending, reading, scratch>>

\* ------------------------------------------------------------------------
\* Properties
\* ------------------------------------------------------------------------

\* the quotients of a pocket dictionary
Quots == 0..(50 - 1)

\* The remainders looked up: those of the keys, and some no key has
ProbeRems == {RemOf(k) : k \in Keys} \cup {1, 128, 254}

\* The (quot, rem) pairs offered to pd_add_50: those of the keys, and some no
\* key has
ProbePairs == {<<QuotOf(k), RemOf(k)>> : k \in Keys} \cup {<<0, 255>>, <<25, 1>>}

\* the tape byte i of a block
Tape(pd, i) == pd[kBytes2copy + i + 1]

\* C1. Completeness: every key whose Add has returned true is found by
\* Contain, by every instantiation of FINDER, in every later state.
Completeness ==
  \A k \in Keys : count[k] > 0 => \A f \in Finders : Contain(f, k)

\* Two keys have been added, and an Add has failed since.
CompletenessWitness ==
  /\ ret # <<>> /\ ret[2] = FALSE
  /\ \E k1, k2 \in Keys : k1 # k2 /\ count[k1] > 0 /\ count[k2] > 0

\* C2. Exactness of pd_find_50: pd_find_50(q, r, pd) holds exactly for the
\* pairs (q, r) whose pd_add_50 into pd returned true.  pd_find_50 is unfolded
\* so that the header and the compare masks of a block are evaluated once.
FindExact ==
  \A b \in DOMAIN buckets_ :
    \A h \in {FindHeader(buckets_[b])} :
      \A v \in {[r \in ProbeRems |-> CompareMask(r, buckets_[b])]} :
        \A q \in Quots :
          \A be \in {Range_50(q, h)} :
            \A r \in ProbeRems : InRange(be, v[r]) <=> (<<q, r>> \in held[b])

\* A block holds two different pairs, one of them twice.
FindExactWitness ==
  \E b \in DOMAIN buckets_ : Cardinality(held[b]) >= 2 /\ adds[b] >= 3

\* C3. pd_add_50 returns false exactly when the block already holds 51
\* entries, whatever (quot, rem) is; a block never holds more, and one that
\* holds 51 has its 50th set bit at position 100.
AddFailsIffFull ==
  /\ \A b \in DOMAIN buckets_ :
       /\ adds[b] <= 51
       /\ \A qr \in ProbePairs :
            (~ pd_add_50(qr[1], qr[2], buckets_[b]).ret) <=> (adds[b] = 51)
       /\ adds[b] = 51 =>
            /\ Fill(AddHeader(buckets_[b])) = 51
            /\ select128(AddHeader(buckets_[b]), 50 - 1) = 100
  /\ ret # <<>> => ((ret[2] = FALSE) => adds[ret[1]] = 51)

\* An Add has returned false on a block that 51 Adds filled.
AddFailsWitness ==
  ret # <<>> /\ ret[2] = FALSE /\ adds[ret[1]] = 51

\* C4. An Add that returns false changes no byte of any bucket and not
\* bucket_count_.
FailedAddChangesNothing ==
  [][(ret' # <<>> /\ ret'[2] = FALSE)
       => (buckets_' = buckets_ /\ bucket_count_' = bucket_count_)]_vars

\* An Add has returned false.
FailedAddWitness == ret # <<>> /\ ret[2] = FALSE /\ ret[1] \in saturated

\* C5. Saturation monotonicity: an Add into a bucket whose Add has returned
\* false before returns false.
SaturationMonotone ==
  [][(ret' # <<>> /\ ret'[1] \in saturated) => ret'[2] = FALSE]_vars

\* One bucket has refused an Add and the other has taken one since.
SaturationWitness ==
  /\ saturated # {}
  /\ ret # <<>> /\ ret[2] = TRUE /\ ret[1] \notin saturated

\* C6. The header of every bucket has 50 set bits among its low 101 bits,
\* and so has the header pd_add_50 would write for any quotient.
HeaderPopcount ==
  \A b \in DOMAIN buckets_ :
    \A h \in {AddHeader(buckets_[b])} :
      /\ popcount128(h) = 50
      /\ popcount128(FindHeader(buckets_[b])) = 50
      /\ Cardinality((0..100) \ h) = 51
      /\ Fill(h) # 51 => \A q \in Quots : popcount128(NewHeader(q, h)) = 50

\* A header that Adds have changed, in a full block.
HeaderPopcountWitness ==
  \E b \in DOMAIN buckets_ :
    adds[b] = 51 /\ AddHeader(buckets_[b]) # InitHeaderLane

\* C7 as stated: after a successful Add the first 128 bits of the target
\* block, read as a little-endian integer H, have H >> 101 = 0.
HighBitsZero128 ==
  (ret # <<>> /\ ret[2] = TRUE) =>
    ShiftRight(BitsOfBytes(SubSeq(buckets_[ret[1]], 1, HeaderWordBytes)),
               50 + 51) = {}

\* C7 amended: the kBytes2copy bytes that hold the header have their bits
\* 101..103 zero after a successful Add; bits 104..127 of the block are the
\* first three tape bytes, and the header a lookup reads from the first 128
\* bits is the header pd_add_50 reads from those kBytes2copy bytes.
HighBitsZero104 ==
  (ret # <<>> /\ ret[2] = TRUE) =>
    /\ ShiftRight(BitsOfBytes(SubSeq(buckets_[ret[1]], 1, kBytes2copy)),
                  50 + 51) = {}
    /\ FindHeader(buckets_[ret[1]]) = AddHeader(buckets_[ret[1]])

\* The Add that filled a block has returned true: the last separator is at
\* bit 100, and the first tape byte is not zero.
HighBitsWitness ==
  /\ ret # <<>> /\ ret[2] = TRUE /\ adds[ret[1]] = 51
  /\ Tape(buckets_[ret[1]], 0) # 0

\* C8. Tape sortedness: the remainders of every quotient of every bucket are
\* non-decreasing along the tape.
TapeSorted ==
  \A b \in DOMAIN buckets_ :
    \A h \in {FindHeader(buckets_[b])} :
      \A q \in Quots :
        \A be \in {Range_50(q, h)} :
          \A i \in be[1]..(be[2] - 2) :
            Tape(buckets_[b], i) <= Tape(buckets_[b], i + 1)

\* Quotient 5 of a block holds 0x10 and then 0x20, added in the other order.
TapeSortedWitness ==
  \E b \in DOMAIN buckets_ :
    /\ count[KeyList[1]] > 0 /\ count[KeyList[2]] > 0
    /\ {<<5, 16>>, <<5, 32>>} \subseteq held[b]
    /\ \E i \in 0..49 : Tape(buckets_[b], i) = 16 /\ Tape(buckets_[b], i + 1) = 32

\* C9. Variant equivalence: the six lookups return the same boolean for
\* every quotient and remainder on every bucket.  The lookups are unfolded so
\* that the header and the compare masks of a block are evaluated once.
VariantEquivalence ==
  \A b \in DOMAIN buckets_ :
    \A h \in {FindHeader(buckets_[b])} :
      \A v \in {[r \in ProbeRems |-> CompareMask(r, buckets_[b])]} :
        \A q \in Quots :
          \A be \in {Range_50(q, h)} :
            \A other \in {Range_50_alt(q, h), Range_50_alt2(q, h),
                          Range_50_alt3(q, h), Range_50_alt4(q, h),
                          Range_50_alt5(q, h)} :
              \A r \in ProbeRems : InRange(other, v[r]) = InRange(be, v[r])

\* A full block whose separators of quotient 13 and above lie in the high
\* half of the header, with entries in quotient 0.
VariantWitness ==
  \E b \in DOMAIN buckets_ :
    /\ adds[b] = 51
    /\ <<0, 0>> \in held[b]
    /\ select128(FindHeader(buckets_[b]), 13) >= 64


\* C10. Batch equivalence: bit i of Contain64, of Contain64_alt and of
\* Contain128 is Contain of the i-th key, for every instantiation of FINDER.
BatchEquivalence ==
  \A f \in Finders :
    \A one \in {[k \in Keys |-> Contain(f, k)]} :
      /\ Contain64(f, Keys64) = {i \in 0..63 : one[Keys64[i]]}
      /\ Contain64_alt(f, Keys64) = {i \in 0..63 : one[Keys64[i]]}
      /\ Contain128(f, Keys128) = {i \in 0..127 : one[Keys128[i]]}

\* A batch answer with set and clear bits, for keys of both buckets: the
\* key of bucket 1 is in, the key of bucket 0 with the same quotient and
\* remainder is not.
BatchWitness ==
  /\ bucket_count_ = 2
  /\ count[KeyList[5]] > 0 /\ count[KeyList[1]] = 0
  /\ 4 \in Contain64("pd_find_50", Keys64)
  /\ 0 \notin Contain64("pd_find_50", Keys64)
  /\ 20 \in Contain128("pd_find_50", Keys128)

\* C11 as stated. Bucket sizing: a filter constructed with the hint n has
\* ceil(n / 45) buckets, and SizeInBytes() returns ceil(n / 45) * 64.
BucketSizing ==
  /\ bucket_count_ = (hint + 44) \div 45
  /\ \A t \in Threads :
       (out[t] # <<>> /\ out[t][1] = "SizeInBytes")
         => out[t][3] = ((hint + 44) \div 45) * 64

\* C12. Cross-bucket isolation: an Add leaves every byte of every bucket but
\* the one its key maps to as it was, and with it the answer of Contain, by
\* every instantiation of FINDER, for every key of another bucket.  Contain
\* is unfolded so that the block before and the block after are values.
BucketIsolation ==
  [][ret' # <<>> =>
       /\ bucket_count_' = bucket_count_
       /\ DOMAIN buckets_' = DOMAIN buckets_
       /\ \A b \in DOMAIN buckets_ \ {ret'[1]} :
            \A before \in {buckets_[b]} :
              \A after \in {buckets_'[b]} :
                /\ after = before
                /\ \A k \in {k2 \in Keys : BucketOf(k2) = b} :
                     \A f \in Finders :
                       FINDER(f, QuotOf(k), RemOf(k), after)
                         = FINDER(f, QuotOf(k), RemOf(k), before)]_vars

\* An Add has stored a key in one bucket of a filter whose other bucket
\* holds a key.
BucketIsolationWitness ==
  /\ bucket_count_ = 2
  /\ ret # <<>> /\ ret[2] = TRUE
  /\ \E b \in DOMAIN buckets_ : b # ret[1] /\ adds[b] > 0

\* C13. Add is not idempotent and stays complete: the fill of a block is
\* the number of Adds into it that returned true, the tape range of a
\* quotient holds a remainder as many times as its pair was added, the same
\* pair included; no key is added more than 51 times, an Add returns false
\* only on a block of 51 entries, and a key added once or more is found.
AddCountsEveryCall ==
  /\ \A where \in {[k \in Keys |-> BucketOf(k)]} :
       \A b \in DOMAIN buckets_ :
         \A h \in {AddHeader(buckets_[b])} :
           /\ Fill(h) = adds[b]
           /\ \A qr \in ProbePairs :
                Cardinality({i \in (AddBegin(qr[1], h) - qr[1])
                                     ..(AddEnd(qr[1], h) - qr[1] - 1) :
                               Tape(buckets_[b], i) = qr[2]})
                  = SumCount([k \in Keys |->
                                IF where[k] = b /\ QuotOf(k) = qr[1]
                                   /\ RemOf(k) = qr[2]
                                THEN count[k] ELSE 0], Len(KeyList))
  /\ \A k \in Keys :
       /\ count[k] <= 51
       /\ count[k] > 0 => \A f \in Finders : Contain(f, k)
  /\ (ret # <<>> /\ ret[2] = FALSE) => adds[ret[1]] = 51

\* One key has been added 51 times to an empty bucket, and its 52nd Add has
\* returned false.
AddCountsWitness ==
  \E k \in Keys :
    /\ count[k] = 51 /\ adds[BucketOf(k)] = 51
    /\ ret = <<BucketOf(k), FALSE>>
    /\ Contain("pd_find_50", k)

\* C14. Header update of pd_add_50: on every block that is not full and for
\* every quotient q, new_header is the old header H with one zero bit
\* inserted at end = select128(H, q), that is
\* (H & ((1 << end) - 1)) | ((H >> end) << (end + 1)), and that is the header
\* the block holds after pd_add_50(q, ...).
HeaderUpdate ==
  \A b \in DOMAIN buckets_ :
    \A H \in {AddHeader(buckets_[b])} :
      Fill(H) # 51 =>
        \A q \in Quots :
          \A end \in {select128(H, q)} :
            \A inserted \in {(H \cap LowMask(end))
                               \cup ShiftLeft(ShiftRight(H, end), end + 1, 128)} :
              /\ NewHeader(q, H) = inserted
              /\ inserted \cap LowMask(end) = H \cap LowMask(end)
              /\ end \notin inserted
              /\ ShiftRight(inserted, end + 1) = ShiftRight(H, end)
              /\ q = QuotOf(KeyList[1]) =>
                   AddHeader(pd_add_50(q, RemOf(KeyList[1]), buckets_[b]).pd)
                     = inserted

\* A block that is not full and holds entries of a quotient, so that begin
\* and end of that quotient differ, after an Add that returned true.
HeaderUpdateWitness ==
  /\ ret # <<>> /\ ret[2] = TRUE
  /\ \E h \in {AddHeader(buckets_[ret[1]])} :
       /\ Fill(h) # 51
       /\ \E q \in Quots : AddEnd(q, h) - AddBegin(q, h) >= 2

\* C15 as stated: select64_alt(x, j) is the position of the j-th set bit of x
\* for 0 <= j < popcount(x), and 63 for j = -1.
SelectAltMinusOneIs63 ==
  \A t \in Threads :
    (out[t] # <<>> /\ out[t][1] = "select64_alt") =>
      \A x \in {out[t][2][1]} :
        \A j \in {out[t][2][2]} :
          /\ j >= 0 => /\ out[t][3] \in x
                        /\ Cardinality(x \cap (0..(out[t][3] - 1))) = j
          /\ j = -1 => out[t][3] = 63

\* C15 amended: select64_alt(x, j) is the position of the j-th set bit of x
\* for 0 <= j < popcount(x) with j <= 62, and 0 for j = -1; j = 63 shifts by
\* the width of the type and is left open.
SelectAltMinusOneIs0 ==
  \A t \in Threads :
    (out[t] # <<>> /\ out[t][1] = "select64_alt") =>
      \A x \in {out[t][2][1]} :
        \A j \in {out[t][2][2]} :
          /\ (j >= 0 /\ j <= 62) =>
               /\ out[t][3] \in x
               /\ Cardinality(x \cap (0..(out[t][3] - 1))) = j
          /\ j = -1 => out[t][3] = 0

\* select64_alt has been called with j = -1 on a word whose bit 63 is set
\* and whose bit 0 is not.
SelectAltWitness ==
  \E t \in Threads :
    /\ out[t] # <<>> /\ out[t][1] = "select64_alt"
    /\ out[t][2][2] = -1
    /\ 63 \in out[t][2][1] /\ 0 \notin out[t][2][1]

\* C16. Add is not atomic: while an Add is pending, its block holds the new
\* header, which counts the entry being added, over the tape as it was; when
\* no Add is pending, every key whose Add has returned true is found.
AddNotAtomic ==
  /\ pending = <<>> =>
       \A k \in Keys : count[k] > 0 => \A f \in Finders : Contain(f, k)
  /\ pending # <<>> =>
       \A pd \in {buckets_[pending[2]]} :
         /\ AddHeader(pd) = NewHeader(QuotOf(pending[1]), pending[3])
         /\ Fill(AddHeader(pd)) = adds[pending[2]] + 1
         /\ SubSeq(pd, kBytes2copy + 1, PdBytes)
              = SubSeq(pending[4], kBytes2copy + 1, PdBytes)

\* An Add is pending, and Contain returns false for a key whose Add has
\* returned true.
AddNotAtomicWitness ==
  /\ pending # <<>>
  /\ \E k \in Keys : count[k] > 0 /\ ~ Contain("pd_find_50", k)

\* the value a read-only call returns when it runs alone on the filter
ReadAlone(fn, arg) ==
  CASE fn = "Contain"       -> Contain(ReadFinder, arg)
    [] fn = "Contain64"     -> Contain64(ReadFinder, KeyArray(arg))
    [] fn = "Contain64_alt" -> Contain64_alt(ReadFinder, KeyArray(arg))
    [] fn = "Contain128"    -> Contain128(ReadFinder, KeyArray(arg))

\* C17. Read-only sharing: a step of Contain, Contain64, Contain64_alt or
\* Contain128 changes no bucket byte and not bucket_count_, and however the
\* calls of the threads interleave, each returns what it returns when run
\* alone on the filter.
ReadOnlySharing ==
  /\ [](\A t \in Threads :
          out[t] # <<>> => out[t][3] = ReadAlone(out[t][1], out[t][2]))
  /\ [][(out' # out \/ reading' # reading)
          => (buckets_' = buckets_ /\ bucket_count_' = bucket_count_)]_vars

\* Two threads have called Contain64 on different key arrays and both have
\* returned, with different answers and with keys found and keys not found.
ReadOnlySharingWitness ==
  /\ out[1] # <<>> /\ out[2] # <<>>
  /\ out[1][1] = "Contain64" /\ out[2][1] = "Contain64"
  /\ out[1][2] # out[2][2]
  /\ out[1][3] # {} /\ out[1][3] # 0..63
  /\ out[1][3] # out[2][3]

\* C18. The tape ranges partition the occupied tape: with begin_fp and
\* end_fp as pd_find_50 computes them, begin_fp(0) = 0, end_fp(q) =
\* begin_fp(q + 1) for q below 49, begin_fp(q) <= end_fp(q), and end_fp(49)
\* is the fill, at most 51; the five variants and pd_add_50 compute the same
\* begin and end, so their assertions begin <= end and end <= 51 hold.
TapePartition ==
  \A b \in DOMAIN buckets_ :
    \A h \in {FindHeader(buckets_[b])} :
      \A ah \in {AddHeader(buckets_[b])} :
        \A fp \in {[q \in Quots |-> Range_50(q, h)]} :
          /\ fp[0][1] = 0
          /\ \A q \in 0..48 : fp[q][2] = fp[q + 1][1]
          /\ \A q \in Quots : fp[q][1] <= fp[q][2] /\ fp[q][2] <= 51
          /\ fp[49][2] = Fill(ah) /\ Fill(ah) <= 51
          /\ \A q \in Quots :
               /\ Range_50_alt(q, h) = fp[q]
               /\ Range_50_alt2(q, h) = fp[q]
               /\ Range_50_alt3(q, h) = fp[q]
               /\ Range_50_alt4(q, h) = fp[q]
               /\ Range_50_alt5(q, h) = fp[q]
               /\ <<AddBegin(q, ah) - q, AddEnd(q, ah) - q>> = fp[q]
               /\ AddEnd(q, ah) <= 50 + 51

\* A full block with entries in two quotients, the other quotients being
\* empty.
TapePartitionWitness ==
  \E b \in DOMAIN buckets_ :
    /\ adds[b] = 51
    /\ Cardinality({qr[1] : qr \in held[b]}) >= 2
    /\ \E q \in Quots : \A qr \in held[b] : qr[1] # q

\* C19 as stated. In-range addressing: in a filter constructed with a hint
\* of 1 or more, every key has a quotient in 0..49, a remainder in 0..255 and
\* a bucket index below bucket_count_, and the bucket an Add has addressed
\* is one of the array.
InRangeAddressing ==
  hint >= 1 =>
    /\ \A k \in Keys :
         /\ QuotOf(k) \in 0..49
         /\ RemOf(k) \in 0..255
         /\ BucketOf(k) < bucket_count_
    /\ ret # <<>> => ret[1] \in DOMAIN buckets_

\* ------------------------------------------------------------------------
\* Specification
\* ------------------------------------------------------------------------

\* The filter under every key, for both capacity hints
Next == \E key \in Keys : Add(key)

Spec == Init /\ [][Next]_vars

\* One pocket dictionary: the bucket of a filter of one bucket, under the
\* keys of five different (quot, rem) pairs
PdKeys == Keys \ {KeyList[5]}

InitPD == Init /\ bucket_count_ = 1

NextPD == \E key \in PdKeys : Add(key)

SpecPD == InitPD /\ [][NextPD]_vars

\* The batch lookups: a filter of two buckets under two keys of the same
\* quotient and remainder, one in each bucket
BatchKeys == {KeyList[1], KeyList[5]}

InitBatch == Init /\ bucket_count_ = 2

NextBatch == \E key \in BatchKeys : Add(key)

SpecBatch == InitBatch /\ [][NextBatch]_vars

\* Filters of every size from no bucket to three, under one key and the
\* size query
HintKeys == {KeyList[4]}

InitHint == \E add_count \in Hints : Constructed(add_count)

NextHint ==
  \/ \E key \in HintKeys : Add(key)
  \/ \E key \in HintKeys : AddOutOfRange(key)
  \/ \E t \in Threads : SizeInBytes(t)

SpecHint == InitHint /\ [][NextHint]_vars

\* select64_alt on its own, beside a filter of one bucket
NextSelect == Select64Alt(1)

SpecSelect == InitPD /\ [][NextSelect]_vars

\* One bucket under Adds taken in their two steps, a reader being free to
\* look at the block between them
NextRace ==
  \/ \E key \in PdKeys : AddStoresHeader(key)
  \/ AddStoresRemainder

SpecRace == InitPD /\ [][NextRace]_vars

\* A filter of two buckets that is loaded and then read by two threads
NextRead ==
  \/ \E key \in BatchKeys : Load(key)
  \/ \E t \in Threads : \E key \in BatchKeys : ContainCall(t, key)
  \/ \E t \in Threads : \E call \in BatchCalls : BatchIndexes(t, call)
  \/ \E t \in Threads : BatchProbes(t)

SpecRead == InitBatch /\ [][NextRead]_vars

\* One pocket dictionary under keys of the first, a middle and the last
\* quotient
TapeKeys == {KeyList[1], KeyList[3], KeyList[4]}

NextTape == \E key \in TapeKeys : Add(key)

SpecTape == InitPD /\ [][NextTape]_vars

====
